---- MODULE Spec2Model ----
(***************************************************************************)
(* Polling-and-deduplication pipeline of checkin-automation.               *)
(*                                                                         *)
(* The model follows src/src/daemon.py (poll_once), src/src/pipeline.py    *)
(* (Pipeline), src/src/adapters/sqlite_memory.py (the Ledger),             *)
(* src/src/communication/console_notifier.py (the cleaner channel) and     *)
(* src/scripts/run.py (the process runner).  The booking platform, the     *)
(* classifier and the composition services are environment: what they      *)
(* return, and whether they raise, is chosen nondeterministically.         *)
(***************************************************************************)
EXTENDS Naturals, Integers, Sequences, FiniteSets, TLC

\* ------------------------------------------------------------------ bounds
\* reservation ids are 1..MaxReservation
MaxReservation == 2
\* environment events: messages written, cleaner replies, and calls of a
\* port or of the Ledger that raise
MaxEvents == 2
\* thread pages the platform feed has
MaxPages == 2
\* threads on one page of the feed
PageSize == 1
\* poll cycles the daemon runs
MaxCycles == 2
\* calls a client of the Ledger makes
MaxCalls == 3
\* the latest reading of the wall clock
MaxClock == 1

Reservations == 1..MaxReservation
RealIntents == {"early_checkin", "late_checkout"}
Intents == RealIntents \cup {"other"}

\* Days are counted from an origin; Now is the day of the running cycle.
\* threads_cutoff_days is the default of poll_once's parameter.
threads_cutoff_days == 7
Now == threads_cutoff_days + 1
Times == 0..(Now + 1 - threads_cutoff_days)

\* ------------------------------------------------------------------- state
VARIABLES
    messages,         \* platform: reservation_id -> list of GuestMessage
    feed,             \* platform: the thread pages of a fixed feed (SpecScan)
    reviewers,        \* review tool: what each running invocation holds (SpecTool)
    cache,            \* ReservationCache._store (the keys; values are immutable)
    seen,             \* Ledger: seen-message markers
    requests,         \* Ledger: requests table, in insertion order
    drafts,           \* Ledger: drafts table, in insertion order
    sent,             \* outbound calls made: send_message / send_query
    pending,          \* cleaner channel: replies not yet polled
    replies,          \* cleaner replies written so far
    pc,               \* position of the daemon in its cycle
    cycles,           \* cycles started so far
    page,             \* poll_once: page number of the thread scan
    reservation_ids,  \* poll_once: ids collected by the thread scan, then
                      \* the ids the for loop has still to visit
    faults,           \* calls that have raised so far
    last,             \* what the last step of a cycle did (history)
    classified        \* messages the classifier has classified (history)

vars == <<messages, feed, reviewers, cache, seen, requests, drafts, sent,
          pending, replies, pc, cycles, page, reservation_ids, faults,
          last, classified>>

\* ----------------------------------------------------------------- ledger
\* The Ledger as one value, so that a handler is a function of it.
\* _now(): datetime.now(timezone.utc), the wall clock, which may stand still
\* or step back between two readings.  The ISO strings of UTC readings
\* compare as the readings do, so a reading is modelled as a number.
Clock == 0..MaxClock

\* The ledger as its callers find it; now is what _now() returns during the
\* call.  Where no reading is drawn the clock stands at 0.
Ledger ==
    [seen |-> seen, requests |-> requests, drafts |-> drafts, sent |-> sent,
     now |-> 0]

NoRequest == [request_id |-> 0]

has_message_been_seen(L, message_id) ==
    \E s \in L.seen : s.message_id = message_id

\* Faulty variant of mark_message_seen: marking a seen message removes its
\* marker.
mark_message_seen_toggling(L, message_id, reservation_id) ==
    IF has_message_been_seen(L, message_id)
    THEN [L EXCEPT !.seen = {m \in @ : m.message_id # message_id}]
    ELSE [L EXCEPT !.seen = @ \cup {[message_id |-> message_id,
                                     reservation_id |-> reservation_id]}]

mark_message_seen(L, message_id, reservation_id) ==
    IF has_message_been_seen(L, message_id)
    THEN L
    ELSE [L EXCEPT !.seen = @ \cup {[message_id |-> message_id,
                                     reservation_id |-> reservation_id]}]

\* Faulty variant of has_been_processed: the intent is compared with the
\* wrong column, so no row ever matches.
has_been_processed_wrong_column(L, reservation_id, intent) ==
    \E i \in DOMAIN L.requests :
        /\ L.requests[i].reservation_id = reservation_id
        /\ L.requests[i].status = intent

\* Faulty variant of has_been_processed: the reservation is not compared.
has_been_processed_any_reservation(L, reservation_id, intent) ==
    \E i \in DOMAIN L.requests :
        L.requests[i].intent = intent

\* Faulty variant of has_been_processed: the intent is not compared, so a
\* request of either intent answers for both.
has_been_processed_any_intent(L, reservation_id, intent) ==
    \E i \in DOMAIN L.requests :
        L.requests[i].reservation_id = reservation_id

has_been_processed(L, reservation_id, intent) ==
    \E i \in DOMAIN L.requests :
        /\ L.requests[i].reservation_id = reservation_id
        /\ L.requests[i].intent = intent

save_request(L, reservation_id, intent, request_id, original_time, relevant_date) ==
    [L EXCEPT !.requests = Append(@,
        [reservation_id |-> reservation_id,
         intent         |-> intent,
         status         |-> "pending_acknowledgment",
         request_id     |-> request_id,
         original_time  |-> original_time,
         relevant_date  |-> relevant_date])]

\* Faulty variant of update_status: UPDATE without its WHERE clause.
update_status_every_row(L, request_id, status) ==
    [L EXCEPT !.requests = [i \in DOMAIN @ |-> [@[i] EXCEPT !.status = status]]]

\* UPDATE requests SET status = ? WHERE request_id = ?
update_status(L, request_id, status) ==
    [L EXCEPT !.requests =
        [i \in DOMAIN @ |->
            IF @[i].request_id = request_id
            THEN [@[i] EXCEPT !.status = status]
            ELSE @[i]]]

get_request(L, request_id) ==
    IF \E i \in DOMAIN L.requests : L.requests[i].request_id = request_id
    THEN L.requests[CHOOSE i \in DOMAIN L.requests :
                        L.requests[i].request_id = request_id]
    ELSE NoRequest

save_draft(L, request_id, reservation_id, intent, step, draft_body) ==
    [L EXCEPT !.drafts = Append(@,
        [draft_id            |-> Len(@) + 1,
         request_id          |-> request_id,
         reservation_id      |-> reservation_id,
         intent              |-> intent,
         step                |-> step,
         draft_body          |-> draft_body,
         verdict             |-> "pending",
         actual_message_sent |-> "null",
         owner_comment       |-> "null",
         created_at          |-> L.now,
         reviewed_at         |-> "null"])]

NoDraft == [draft_id |-> 0]

\* Faulty variant of get_pending_drafts: no ORDER BY, the rows come in the
\* order of their ids.
get_pending_drafts_unordered(L) ==
    SelectSeq(L.drafts, LAMBDA d : d.verdict = "pending")

\* SELECT * FROM drafts WHERE verdict = 'pending' ORDER BY created_at.
\* Rows with equal created_at come in the order of the table scan, by id.
get_pending_drafts(L) ==
    LET P == SelectSeq(L.drafts, LAMBDA d : d.verdict = "pending")
        rank(i) == 1 + Cardinality({j \in DOMAIN P :
                        \/ P[j].created_at < P[i].created_at
                        \/ P[j].created_at = P[i].created_at /\ j < i})
    IN  [k \in DOMAIN P |-> P[CHOOSE i \in DOMAIN P : rank(i) = k]]

get_draft(L, draft_id) ==
    IF \E i \in DOMAIN L.drafts : L.drafts[i].draft_id = draft_id
    THEN L.drafts[CHOOSE i \in DOMAIN L.drafts : L.drafts[i].draft_id = draft_id]
    ELSE NoDraft

\* Faulty variant of review_draft: reviewed_at is not stamped.
review_draft_unstamped(L, draft_id, verdict, actual_message_sent, owner_comment) ==
    [L EXCEPT !.drafts =
        [i \in DOMAIN @ |->
            IF @[i].draft_id = draft_id
            THEN [@[i] EXCEPT !.verdict = verdict,
                              !.actual_message_sent = actual_message_sent,
                              !.owner_comment = owner_comment]
            ELSE @[i]]]

\* Faulty variant of review_draft: the UPDATE has no WHERE clause.
review_draft_every_row(L, draft_id, verdict, actual_message_sent, owner_comment) ==
    [L EXCEPT !.drafts =
        [i \in DOMAIN @ |->
            [@[i] EXCEPT !.verdict = verdict,
                         !.actual_message_sent = actual_message_sent,
                         !.owner_comment = owner_comment,
                         !.reviewed_at = "now"]]]

\* UPDATE drafts SET verdict, actual_message_sent, owner_comment,
\* reviewed_at WHERE id = draft_id: the row's verdict is not consulted.
review_draft(L, draft_id, verdict, actual_message_sent, owner_comment) ==
    [L EXCEPT !.drafts =
        [i \in DOMAIN @ |->
            IF @[i].draft_id = draft_id
            THEN [@[i] EXCEPT !.verdict = verdict,
                              !.actual_message_sent = actual_message_sent,
                              !.owner_comment = owner_comment,
                              !.reviewed_at = "now"]
            ELSE @[i]]]

\* request_id TEXT NOT NULL UNIQUE: the one uniqueness the requests table
\* declares; an INSERT that repeats a request_id raises.
RequestIdTaken(L, request_id) ==
    \E i \in DOMAIN L.requests : L.requests[i].request_id = request_id

\* --------------------------------------------------------------- pipeline
\* What the classifier port may return.  followup_question is TRUE when the
\* result carries a non-empty question, FALSE when it is None or "".
Classifications ==
    {c \in [intent : RealIntents, needs_followup : BOOLEAN, followup_question : BOOLEAN] :
        c.followup_question => c.needs_followup}
    \cup {[intent |-> "other", needs_followup |-> FALSE, followup_question |-> FALSE]}

NoClassification ==
    [intent |-> "none", needs_followup |-> FALSE, followup_question |-> FALSE]

\* The call of process_message that raises, if it is reached.
FailPoints ==
    {"none", "classify", "mark_message_seen", "save_request",
     "save_draft_followup", "compose_acknowledgment",
     "save_draft_acknowledgment", "save_draft_cleaner_query", "update_status"}

Returned(L, action, didClassify, request_id) ==
    [L |-> L, action |-> action, raised |-> "none",
     classified |-> didClassify, request_id |-> request_id]

Raised(L, point, didClassify) ==
    [L |-> L, action |-> "raised", raised |-> point,
     classified |-> didClassify, request_id |-> 0]

\* Faulty variant of SeenGuard: the seen marker is never consulted.
SeenGuardAbsent(L, message_id) ==
    FALSE

\* if message_id and await memory.has_message_been_seen(message_id)
SeenGuard(L, message_id) ==
    message_id # 0 /\ has_message_been_seen(L, message_id)

\* Faulty variant of MarkSeen: the marker is written for the id 0 too.
MarkSeenAlways(L, message_id, reservation_id) ==
    mark_message_seen(L, message_id, reservation_id)

\* if message_id: await memory.mark_message_seen(message_id, reservation_id)
MarkSeen(L, message_id, reservation_id) ==
    IF message_id # 0 THEN mark_message_seen(L, message_id, reservation_id) ELSE L

\* the daemon passes default_checkin_time="17:00", default_checkout_time="11:00"
OriginalTime(intent) ==
    IF intent = "early_checkin" THEN "17:00" ELSE "11:00"

RelevantDate(intent) ==
    IF intent = "early_checkin" THEN "arrival_date" ELSE "departure_date"

\* Faulty variant of NeedsFollowup: the test on the question is inverted.
NeedsFollowupInverted(cls) ==
    cls.needs_followup /\ ~cls.followup_question

\* if result.needs_followup and result.followup_question
NeedsFollowup(cls) ==
    cls.needs_followup /\ cls.followup_question

\* Steps 3 and 4 with the status update: acknowledgment draft, cleaner-query
\* draft (the CleanerQuery is built and its text drafted, never sent).
\* Faulty variant of DraftAcknowledgment: the acknowledgment is not saved.
DraftAcknowledgmentDropped(L, request_id, reservation_id, intent) ==
    L

DraftAcknowledgment(L, request_id, reservation_id, intent) ==
    save_draft(L, request_id, reservation_id, intent, "acknowledgment", "ack.body")

\* Faulty variant of DraftCleanerQuery: the query is also handed to
\* cleaner.send_query.
DraftCleanerQuerySent(L, request_id, reservation_id, intent) ==
    [save_draft(L, request_id, reservation_id, intent, "cleaner_query", "query.message")
        EXCEPT !.sent = Append(@, "send_query")]

DraftCleanerQuery(L, request_id, reservation_id, intent) ==
    save_draft(L, request_id, reservation_id, intent, "cleaner_query", "query.message")

DraftFollowup(L, request_id, reservation_id, intent) ==
    save_draft(L, request_id, reservation_id, intent, "followup", "followup_question")

\* Faulty variant of uuid4: an id that a cleaner response may already have
\* named.
uuid4_named(L) == 0

\* request_id = str(uuid.uuid4()): an id no request carries.  An id that
\* was generated for a request whose save raised is stored nowhere, so the
\* ids are numbered by the requests table.
uuid4(L) == Len(L.requests) + 1

\* Lines 148-190 of process_message, after the request was saved as L.
ComposeDrafts(L, request_id, reservation_id, intent, fail) ==
    IF fail \in {"compose_acknowledgment", "save_draft_acknowledgment"}
    THEN Raised(L, fail, TRUE)
    ELSE LET L3 == DraftAcknowledgment(L, request_id, reservation_id, intent) IN
         IF fail = "save_draft_cleaner_query"
         THEN Raised(L3, fail, TRUE)
         ELSE LET L4 == DraftCleanerQuery(L3, request_id, reservation_id, intent) IN
              IF fail = "update_status"
              THEN Raised(L4, fail, TRUE)
              ELSE Returned(update_status(L4, request_id, "pending_acknowledgment"),
                            "drafts_created", TRUE, request_id)

\* Lines 109-146: a fresh request id, the request row, then the follow-up
\* branch or the drafts.
NewRequest(L, reservation_id, cls, fail) ==
    LET request_id == uuid4(L) IN
    IF fail = "save_request"
    THEN Raised(L, fail, TRUE)
    ELSE LET L2 == save_request(L, reservation_id, cls.intent, request_id,
                                OriginalTime(cls.intent), RelevantDate(cls.intent)) IN
         IF NeedsFollowup(cls)
         THEN IF fail = "save_draft_followup"
              THEN Raised(L2, fail, TRUE)
              ELSE Returned(DraftFollowup(L2, request_id, reservation_id, cls.intent),
                            "followup_drafted", TRUE, request_id)
         ELSE ComposeDrafts(L2, request_id, reservation_id, cls.intent, fail)

\* Faulty variant of ClassifyRaised: the message is marked seen before the
\* classifier is called.
ClassifyRaisedAfterMark(L, reservation_id, message_id) ==
    Raised(MarkSeen(L, message_id, reservation_id), "classify", FALSE)

\* classifier.classify raises: the exception leaves process_message from
\* line 86, before the seen marker of line 90 is written.
ClassifyRaised(L, reservation_id, message_id) ==
    Raised(L, "classify", FALSE)

\* Faulty variant of IsOther: no classification counts as "other".
IsOtherNever(cls) ==
    FALSE

\* if result.intent == "other"
IsOther(cls) ==
    cls.intent = "other"

process_message(L, reservation_id, message_id, cls, fail) ==
    IF SeenGuard(L, message_id)
    THEN Returned(L, "already_processed", FALSE, 0)
    ELSE IF fail = "classify"
    THEN ClassifyRaised(L, reservation_id, message_id)
    ELSE IF message_id # 0 /\ fail = "mark_message_seen"
    THEN Raised(L, fail, TRUE)
    ELSE LET L1 == MarkSeen(L, message_id, reservation_id) IN
         IF IsOther(cls)
         THEN Returned(L1, "ignored", TRUE, 0)
         ELSE IF has_been_processed(L1, reservation_id, cls.intent)
         THEN Returned(L1, "already_processed", TRUE, 0)
         ELSE NewRequest(L1, reservation_id, cls, fail)

\* What the parser port may return: the answer (the conditions, the
\* proposed time and the confidence that come with it are read by no code
\* of the pipeline).  The calls of _handle_cleaner_response that may raise.
Answers == {"yes", "no", "conditional", "unclear"}

ParsedResponses == [answer : Answers]

CleanerFailPoints ==
    {"none", "parse", "compose", "save_draft_guest_reply", "update_status"}

\* composer.compose(parsed, stub_query): the reply says what the cleaner
\* answered.
compose(parsed) ==
    CASE parsed.answer = "yes" -> "reply.yes"
      [] parsed.answer = "no" -> "reply.no"
      [] parsed.answer = "conditional" -> "reply.conditional"
      [] OTHER -> "reply.unclear"

\* Faulty variant of _handle_cleaner_response: an unclear answer is
\* escalated instead of drafted.
_handle_cleaner_response_gated(L, response, parsed, fail) ==
    LET req == get_request(L, response.request_id)
        found == req # NoRequest
        reservation_id == IF found THEN req.reservation_id ELSE 0
        intent == IF found THEN req.intent ELSE "early_checkin"
    IN  IF fail \in {"parse", "compose", "save_draft_guest_reply"}
        THEN [L |-> L, action |-> "raised"]
        ELSE IF parsed.answer = "unclear"
        THEN [L |-> L, action |-> "escalated"]
        ELSE LET L1 == save_draft(L, response.request_id, reservation_id, intent,
                                  "guest_reply", compose(parsed)) IN
             IF found
             THEN IF fail = "update_status"
                  THEN [L |-> L1, action |-> "raised"]
                  ELSE [L |-> update_status(L1, response.request_id, "pending_reply"),
                        action |-> "reply_drafted"]
             ELSE [L |-> L1, action |-> "reply_drafted"]

\* Faulty variant of _handle_cleaner_response: a response that names no
\* request raises.
_handle_cleaner_response_strict(L, response, parsed, fail) ==
    LET req == get_request(L, response.request_id)
        found == req # NoRequest
    IN  IF fail \in {"parse", "compose", "save_draft_guest_reply"} \/ ~found
        THEN [L |-> L, action |-> "raised"]
        ELSE LET L1 == save_draft(L, response.request_id, req.reservation_id, req.intent,
                                  "guest_reply", compose(parsed)) IN
             IF fail = "update_status"
             THEN [L |-> L1, action |-> "raised"]
             ELSE [L |-> update_status(L1, response.request_id, "pending_reply"),
                   action |-> "reply_drafted"]

\* Faulty variant of _handle_cleaner_response: the request's status is left
\* as it was.
_handle_cleaner_response_status_kept(L, response, parsed, fail) ==
    LET req == get_request(L, response.request_id)
        found == req # NoRequest
        reservation_id == IF found THEN req.reservation_id ELSE 0
        intent == IF found THEN req.intent ELSE "early_checkin"
    IN  IF fail \in {"parse", "compose", "save_draft_guest_reply", "update_status"}
        THEN [L |-> L, action |-> "raised"]
        ELSE [L |-> save_draft(L, response.request_id, reservation_id, intent,
                               "guest_reply", compose(parsed)),
              action |-> "reply_drafted"]

\* parsed is what parser.parse returns for the response; the reply is
\* composed from it and drafted whatever it says.
_handle_cleaner_response(L, response, parsed, fail) ==
    LET req == get_request(L, response.request_id)
        found == req # NoRequest
        reservation_id == IF found THEN req.reservation_id ELSE 0
        intent == IF found THEN req.intent ELSE "early_checkin"
    IN  IF fail \in {"parse", "compose", "save_draft_guest_reply"}
        THEN [L |-> L, action |-> "raised"]
        ELSE LET L1 == save_draft(L, response.request_id, reservation_id, intent,
                                  "guest_reply", compose(parsed)) IN
             IF found
             THEN IF fail = "update_status"
                  THEN [L |-> L1, action |-> "raised"]
                  ELSE [L |-> update_status(L1, response.request_id, "pending_reply"),
                        action |-> "reply_drafted"]
             ELSE [L |-> L1, action |-> "reply_drafted"]

\* process_cleaner_responses on the polled list: the responses are handled
\* in order, response i being parsed as parsed[i]; the handling of response
\* number failAt raises at point fail (failAt = 0: none does) and the
\* exception leaves the loop.
RECURSIVE HandleResponses(_, _, _, _, _, _)
HandleResponses(L, responses, parsed, i, failAt, fail) ==
    IF i > Len(responses)
    THEN [L |-> L, results |-> i - 1, raised |-> FALSE]
    ELSE LET r == _handle_cleaner_response(L, responses[i], parsed[i],
                                           IF i = failAt THEN fail ELSE "none") IN
         IF r.action = "raised"
         THEN [L |-> r.L, results |-> i - 1, raised |-> TRUE]
         ELSE HandleResponses(r.L, responses, parsed, i + 1, failAt, fail)

\* ----------------------------------------------------------------- daemon
\* GuestMessage as SmoobuClient.get_messages builds it: message_id is the
\* platform's id, or 0 when the platform message carries none; type 1 is
\* guest, 2 is host; blank stands for a body that strips to "".
GuestMessage == [message_id : Nat, type : {1, 2}, blank : BOOLEAN]

Thread == [reservation_id : Reservations, latest_message_at : Times]

PageContents == UNION {[1..n -> Thread] : n \in 0..PageSize}

\* cutoff = datetime.now(timezone.utc) - timedelta(days=threads_cutoff_days)
Cutoff == Now - threads_cutoff_days

\* Faulty variant of CollectIds: a thread exactly at the cutoff is left out.
RECURSIVE CollectIdsAfterCutoff(_, _, _, _)
CollectIdsAfterCutoff(ids, threads, i, c) ==
    IF i > Len(threads)
    THEN ids
    ELSE LET t == threads[i]
             known == \E j \in DOMAIN ids : ids[j] = t.reservation_id
         IN  CollectIdsAfterCutoff(IF t.latest_message_at > c /\ ~known
                                   THEN Append(ids, t.reservation_id)
                                   ELSE ids,
                                   threads, i + 1, c)

\* for thread in thread_page.threads: first occurrence within the cutoff wins
RECURSIVE CollectIds(_, _, _, _)
CollectIds(ids, threads, i, c) ==
    IF i > Len(threads)
    THEN ids
    ELSE LET t == threads[i]
             known == \E j \in DOMAIN ids : ids[j] = t.reservation_id
         IN  CollectIds(IF t.latest_message_at >= c /\ ~known
                        THEN Append(ids, t.reservation_id)
                        ELSE ids,
                        threads, i + 1, c)

\* Faulty variant of ScanPageBody: a page whose threads are all older than
\* the cutoff does not stop the pagination.
ScanPageBodyNoStop(ids, threads, has_more, c) ==
    IF threads = <<>>
    THEN [ids |-> ids, more |-> FALSE]
    ELSE [ids |-> CollectIds(ids, threads, 1, c), more |-> has_more]

\* Faulty variant of ScanPageBody: the ids of the last page are not
\* collected.
ScanPageBodyDroppingLast(ids, threads, has_more, c) ==
    IF threads = <<>>
    THEN [ids |-> ids, more |-> FALSE]
    ELSE IF \A i \in DOMAIN threads : threads[i].latest_message_at < c
    THEN [ids |-> ids, more |-> FALSE]
    ELSE IF has_more
    THEN [ids |-> CollectIds(ids, threads, 1, c), more |-> TRUE]
    ELSE [ids |-> ids, more |-> FALSE]

\* One pass of the while loop of the thread scan on a fetched page.
ScanPageBody(ids, threads, has_more, c) ==
    IF threads = <<>>
    THEN [ids |-> ids, more |-> FALSE]
    ELSE IF \A i \in DOMAIN threads : threads[i].latest_message_at < c
    THEN [ids |-> ids, more |-> FALSE]
    ELSE [ids |-> CollectIds(ids, threads, 1, c), more |-> has_more]

\* Faulty variant of _get_reservation: the platform's not-found is stored.
_get_reservation_storing_none(store, reservation_id, fetch) ==
    IF reservation_id \in store
    THEN [info |-> "info", store |-> store, fetched |-> FALSE]
    ELSE IF fetch = "not_found"
    THEN [info |-> "none", store |-> store \cup {reservation_id}, fetched |-> TRUE]
    ELSE IF fetch = "raise_get_reservation"
    THEN [info |-> "raise", store |-> store, fetched |-> TRUE]
    ELSE [info |-> "info", store |-> store \cup {reservation_id}, fetched |-> TRUE]

\* Faulty variant of _get_reservation: the platform is asked on a hit too.
_get_reservation_uncached(store, reservation_id, fetch) ==
    IF fetch = "not_found"
    THEN [info |-> "none", store |-> store, fetched |-> TRUE]
    ELSE IF fetch = "raise_get_reservation"
    THEN [info |-> "raise", store |-> store, fetched |-> TRUE]
    ELSE [info |-> "info", store |-> store \cup {reservation_id}, fetched |-> TRUE]

\* _get_reservation: cache first, the platform on a miss; fetch is what the
\* platform does when asked.
_get_reservation(store, reservation_id, fetch) ==
    IF reservation_id \in store
    THEN [info |-> "info", store |-> store, fetched |-> FALSE]
    ELSE IF fetch = "not_found"
    THEN [info |-> "none", store |-> store, fetched |-> TRUE]
    ELSE IF fetch = "raise_get_reservation"
    THEN [info |-> "raise", store |-> store, fetched |-> TRUE]
    ELSE [info |-> "info", store |-> store \cup {reservation_id}, fetched |-> TRUE]

\* guest_messages = [m for m in messages if m.type == 1 and m.body.strip()]
\* as the positions of the kept messages
GuestPositions(msgs) ==
    {i \in DOMAIN msgs : msgs[i].type = 1 /\ ~msgs[i].blank}

\* Faulty variant of LatestPosition: the first guest message is taken.
LatestPositionFirst(positions) ==
    CHOOSE i \in positions : \A j \in positions : i <= j

\* latest = guest_messages[-1]
LatestPosition(positions) ==
    CHOOSE i \in positions : \A j \in positions : j <= i

\* Faulty variant of NextReservation: an exception leaves the for loop.
NextReservationAborting(ids, raised) ==
    IF raised THEN <<>> ELSE Tail(ids)

\* The for loop goes on to the next reservation after every iteration,
\* also after one whose fetch or pipeline call raised (try/except, continue).
NextReservation(ids, raised) == Tail(ids)

\* What the environment does to one iteration: the platform's answer to the
\* two fetches, the classifier's result, and which call raises (FailPoints).
Scenarios ==
    {[fetch |-> f, cls |-> NoClassification, fail |-> "none"] :
        f \in {"not_found", "raise_get_reservation", "raise_get_messages"}}
    \cup {[fetch |-> "ok", cls |-> NoClassification, fail |-> x] :
            x \in {"none", "classify"}}
    \cup {[fetch |-> "ok", cls |-> c, fail |-> x] :
            c \in {d \in Classifications : d.intent = "other"},
            x \in {"none", "mark_message_seen"}}
    \cup {[fetch |-> "ok", cls |-> c, fail |-> x] :
            c \in {d \in Classifications : d.intent # "other"},
            x \in FailPoints \ {"classify"}}

NoLast ==
    [op |-> "none", action |-> "none", count |-> 0, key |-> <<>>,
     raised_before |-> FALSE]

Skipped(why) == [NoLast EXCEPT !.op = "skip", !.action = why]

Called(r, key) ==
    [NoLast EXCEPT !.op = "process_message", !.action = r.action,
                   !.key = IF r.classified THEN key ELSE <<>>]

\* One iteration of "for reservation_id in reservation_ids" in poll_once.
\* asked tells which of the scenario's choices the iteration consulted.
Iteration(reservation_id, o) ==
    LET g == _get_reservation(cache, reservation_id, o.fetch)
        same == [store |-> g.store, L |-> Ledger]
        unasked == [fetch |-> IF g.fetched THEN o.fetch ELSE "ok",
                    cls |-> NoClassification, fail |-> "none"]
    IN  IF g.info = "raise"
        THEN same @@ [last |-> Skipped("raised"), raised |-> TRUE, asked |-> unasked]
        ELSE IF g.info = "none"
        THEN same @@ [last |-> Skipped("no_metadata"), raised |-> FALSE, asked |-> unasked]
        ELSE IF o.fetch = "raise_get_messages"
        THEN same @@ [last |-> Skipped("raised"), raised |-> TRUE,
                      asked |-> [unasked EXCEPT !.fetch = o.fetch]]
        ELSE LET positions == GuestPositions(messages[reservation_id]) IN
             IF positions = {}
             THEN same @@ [last |-> Skipped("no_guest_message"), raised |-> FALSE,
                           asked |-> [unasked EXCEPT !.fetch = "ok"]]
             ELSE LET position == LatestPosition(positions)
                      latest == messages[reservation_id][position]
                      r == process_message(Ledger, reservation_id,
                                           latest.message_id, o.cls, o.fail)
                  IN  [store |-> g.store, L |-> r.L,
                       last |-> Called(r, <<reservation_id, position>>),
                       raised |-> r.action = "raised",
                       asked |-> [fetch |-> "ok",
                                  cls |-> IF r.classified THEN o.cls ELSE NoClassification,
                                  fail |-> r.raised]]

Init ==
    /\ messages = [r \in Reservations |-> <<>>]
    /\ feed = <<>>
    /\ reviewers = <<>>
    /\ cache = {}
    /\ seen = {}
    /\ requests = <<>>
    /\ drafts = <<>>
    /\ sent = <<>>
    /\ pending = <<>>
    /\ replies = 0
    /\ pc = "idle"
    /\ cycles = 0
    /\ page = 0
    /\ reservation_ids = <<>>
    /\ faults = 0
    /\ last = NoLast
    /\ classified = {}

TotalMessages ==
    LET RECURSIVE Sum(_)
        Sum(r) == IF r = 0 THEN 0 ELSE Len(messages[r]) + Sum(r - 1)
    IN  Sum(MaxReservation)

Events == TotalMessages + replies + faults

platformVars == <<messages, feed, reviewers>>
ledgerVars == <<seen, requests, drafts, sent>>
cleanerVars == <<pending, replies>>
cycleVars == <<pc, cycles, page, reservation_ids, faults, last>>
historyVars == <<classified>>

\* A guest or the host writes on a reservation's thread.  The platform is
\* read once per reservation and cycle and the thread feed is independent of
\* it, so a message written during a cycle acts as one written before or
\* after it: writes are taken between cycles.
\* The platform's message ids are positive and differ from message to
\* message; which integers they are is the platform's business.
PlatformId(r, position) == (position - 1) * MaxReservation + r

MessageKinds ==
    {[type |-> 1, blank |-> FALSE, has_id |-> TRUE],
     [type |-> 1, blank |-> FALSE, has_id |-> FALSE],
     [type |-> 1, blank |-> TRUE, has_id |-> TRUE],
     [type |-> 2, blank |-> FALSE, has_id |-> TRUE]}

WriteMessage ==
    /\ pc = "idle"
    /\ Events < MaxEvents
    /\ \E r \in Reservations, k \in MessageKinds :
        messages' = [messages EXCEPT ![r] = Append(@,
            [message_id |-> IF k.has_id THEN PlatformId(r, Len(@) + 1) ELSE 0,
             type |-> k.type, blank |-> k.blank])]
    /\ UNCHANGED <<feed, reviewers, cache, ledgerVars, cleanerVars, cycleVars, historyVars>>

\* The cleaner answers; the reply names any request id, known or not.  The
\* channel is read only by the poll that ends a cycle.
CleanerReplies ==
    /\ pc = "idle"
    /\ Events < MaxEvents
    /\ \E request_id \in 0..Len(requests) :
        pending' = Append(pending, [request_id |-> request_id])
    /\ replies' = replies + 1
    /\ UNCHANGED <<platformVars, cache, ledgerVars, cycleVars, historyVars>>

\* poll_once starts the thread scan at page 1.
StartCycle ==
    /\ pc = "idle"
    /\ cycles < MaxCycles
    /\ cycles' = cycles + 1
    /\ pc' = "scan"
    /\ page' = 1
    /\ reservation_ids' = <<>>
    /\ last' = NoLast
    /\ UNCHANGED <<faults, platformVars, cache, ledgerVars, cleanerVars, historyVars>>

\* Faulty variant of ScanDone: a failed page fetch ends the whole cycle.
ScanDoneAborting(ids, pages, raised) ==
    /\ reservation_ids' = IF raised THEN <<>> ELSE ids
    /\ pc' = IF raised THEN "idle"
             ELSE IF ids = <<>> THEN "cleaner" ELSE "process"
    /\ page' = 0
    /\ last' = [NoLast EXCEPT !.op = "scan", !.count = pages,
                              !.action = IF raised THEN "raised" ELSE "scanned"]

\* The scan is over, by a break of the while loop: the for loop over the
\* collected ids follows, then the cleaner poll.
ScanDone(ids, pages, raised) ==
    /\ reservation_ids' = ids
    /\ pc' = IF ids = <<>> THEN "cleaner" ELSE "process"
    /\ page' = 0
    /\ last' = [NoLast EXCEPT !.op = "scan", !.count = pages,
                              !.action = IF raised THEN "raised" ELSE "scanned"]

\* The loop body on a page that get_threads returned.
ScanFetched(threads, has_more) ==
    /\ faults' = faults
    /\ LET b == ScanPageBody(reservation_ids, threads, has_more, Cutoff) IN
       IF b.more
       THEN /\ reservation_ids' = b.ids
            /\ page' = page + 1
            /\ UNCHANGED <<pc, last>>
       ELSE ScanDone(b.ids, page, FALSE)

\* smoobu.get_threads(page_number=page) and the loop body on its result.
ScanPage ==
    /\ pc = "scan"
    /\ \/ /\ Events < MaxEvents
          /\ faults' = faults + 1
          /\ ScanDone(reservation_ids, page, TRUE)
       \/ \E threads \in PageContents, has_more \in BOOLEAN :
            /\ has_more => page < MaxPages
            /\ ScanFetched(threads, has_more)
    /\ UNCHANGED <<cycles, platformVars, cache, ledgerVars, cleanerVars, historyVars>>

\* The iteration of the for loop on the next reservation id under scenario
\* o.  A scenario is taken only as far as the iteration consults it: one
\* that names a fetch, a classification or a raising call the iteration never
\* reaches is the scenario without it, and a classifier that returns gives
\* one of Classifications.
ProcessStep(o) ==
    /\ pc = "process"
    /\ \E it \in {Iteration(Head(reservation_ids), o)} :
       LET rest == NextReservation(reservation_ids, it.raised)
       IN  /\ it.asked = o
           /\ it.last.key # <<>> => o.cls \in Classifications
           /\ it.raised => Events < MaxEvents
           /\ faults' = IF it.raised THEN faults + 1 ELSE faults
           /\ cache' = it.store
           /\ seen' = it.L.seen
           /\ requests' = it.L.requests
           /\ drafts' = it.L.drafts
           /\ sent' = it.L.sent
           /\ last' = [it.last EXCEPT !.raised_before =
                           \/ last.raised_before
                           \/ last.op \in {"skip", "process_message"}
                              /\ last.action = "raised"]
           /\ classified' = IF it.last.key = <<>> THEN classified
                            ELSE classified \cup {it.last.key}
           /\ reservation_ids' = rest
           /\ pc' = IF rest = <<>> THEN "cleaner" ELSE "process"
    /\ UNCHANGED <<platformVars, cleanerVars, cycles, page>>

ProcessReservation == \E o \in Scenarios : ProcessStep(o)

\* process_cleaner_responses once poll_responses has returned the pending
\* list (and cleared it): the responses are handled, parsed as parsed says.
PollHandled(parsed, failAt, fail) ==
    /\ (failAt = 0) = (fail = "none")
    /\ \E h \in {HandleResponses(Ledger, pending, parsed, 1, failAt, fail)} :
       /\ seen' = h.L.seen
       /\ requests' = h.L.requests
       /\ drafts' = h.L.drafts
       /\ sent' = h.L.sent
       /\ faults' = IF h.raised THEN faults + 1 ELSE faults
       /\ last' = [NoLast EXCEPT !.op = "cleaner", !.count = h.results, !.key = parsed,
                       !.action = IF h.raised THEN "raised" ELSE "polled"]
    /\ pending' = <<>>

\* The same, a raise being one of the environment's events.
PollTaken(parsed, failAt, fail) ==
    /\ fail # "none" => Events < MaxEvents
    /\ PollHandled(parsed, failAt, fail)

\* pipeline.process_cleaner_responses(): the channel is polled, then each
\* response is handled in turn.
PollResponses ==
    /\ \/ \* cleaner.poll_responses() raises: nothing was taken
          /\ Events < MaxEvents
          /\ faults' = faults + 1
          /\ last' = [NoLast EXCEPT !.op = "cleaner", !.action = "raised"]
          /\ UNCHANGED <<ledgerVars, pending>>
       \/ \E parsed \in [DOMAIN pending -> ParsedResponses],
             failAt \in 0..Len(pending), fail \in CleanerFailPoints :
            PollTaken(parsed, failAt, fail)
    /\ UNCHANGED <<platformVars, cache, replies, page, reservation_ids, historyVars>>

\* Faulty variant of AfterCleanerPoll: the exception leaves poll_once.
AfterCleanerPollUncaught(raised) ==
    IF raised THEN "crashed" ELSE "idle"

\* try: process_cleaner_responses() except Exception: log; poll_once then
\* returns, whether the poll raised or not.
AfterCleanerPoll(raised) == "idle"

\* The end of poll_once: pipeline.process_cleaner_responses() inside try.
PollCleaner ==
    /\ pc = "cleaner"
    /\ PollResponses
    /\ pc' = AfterCleanerPoll(last'.action = "raised")
    /\ UNCHANGED cycles

Next ==
    \/ WriteMessage
    \/ CleanerReplies
    \/ StartCycle
    \/ ScanPage
    \/ ProcessReservation
    \/ PollCleaner

Spec == Init /\ [][Next]_vars

\* poll_once is one coroutine: once started, its scan, its for loop and its
\* cleaner poll run to the end.
CycleStep == ScanPage \/ ProcessReservation \/ PollCleaner

SpecLive == Spec /\ WF_vars(CycleStep)

\* ----------------------------------------------------------------- runner
\* scripts/run.py: the poll_once that main() runs.  It lists the active
\* reservations, keeps every message with a non-blank body whatever its
\* type, and calls process_message without a message_id (the default 0).
ActiveReservations ==
    {ids \in UNION {[1..n -> Reservations] : n \in 0..MaxReservation} :
        \A i, j \in DOMAIN ids : ids[i] = ids[j] => i = j}

\* guest_messages = [m for m in messages if m.body.strip()]
RunGuestPositions(msgs) ==
    {i \in DOMAIN msgs : ~msgs[i].blank}

\* What the environment does to one iteration of the runner's loop.
RunScenarios ==
    {o \in Scenarios : o.fetch \in {"ok", "raise_get_messages"}}

\* One iteration of "for res in reservations" in the runner's poll_once.
RunIteration(reservation_id, o) ==
    LET unasked == [fetch |-> o.fetch, cls |-> NoClassification, fail |-> "none"]
    IN  IF o.fetch = "raise_get_messages"
        THEN [L |-> Ledger, last |-> Skipped("raised"), raised |-> TRUE,
              asked |-> unasked]
        ELSE LET positions == RunGuestPositions(messages[reservation_id]) IN
             IF positions = {}
             THEN [L |-> Ledger, last |-> Skipped("no_guest_message"),
                   raised |-> FALSE, asked |-> unasked]
             ELSE LET position == LatestPosition(positions)
                      r == process_message(Ledger, reservation_id, 0, o.cls, o.fail)
                  IN  [L |-> r.L,
                       last |-> Called(r, <<reservation_id, position>>),
                       raised |-> r.action = "raised",
                       asked |-> [fetch |-> "ok",
                                  cls |-> IF r.classified THEN o.cls ELSE NoClassification,
                                  fail |-> r.raised]]

\* smoobu.get_active_reservations(...): on an exception poll_once returns,
\* without the cleaner poll.
StartRun ==
    /\ pc = "idle"
    /\ cycles < MaxCycles
    /\ cycles' = cycles + 1
    /\ \/ /\ Events < MaxEvents
          /\ faults' = faults + 1
          /\ reservation_ids' = <<>>
          /\ pc' = "idle"
          /\ last' = [NoLast EXCEPT !.op = "scan", !.action = "raised"]
       \/ \E reservations \in ActiveReservations :
            /\ faults' = faults
            /\ reservation_ids' = reservations
            /\ pc' = IF reservations = <<>> THEN "cleaner" ELSE "run"
            /\ last' = [NoLast EXCEPT !.op = "scan", !.action = "scanned"]
    /\ UNCHANGED <<page, platformVars, cache, ledgerVars, cleanerVars, historyVars>>

RunStep(o) ==
    /\ pc = "run"
    /\ \E it \in {RunIteration(Head(reservation_ids), o)} :
       LET rest == Tail(reservation_ids)
       IN  /\ it.asked = o
           /\ it.last.key # <<>> => o.cls \in Classifications
           /\ it.raised => Events < MaxEvents
           /\ faults' = IF it.raised THEN faults + 1 ELSE faults
           /\ seen' = it.L.seen
           /\ requests' = it.L.requests
           /\ drafts' = it.L.drafts
           /\ sent' = it.L.sent
           /\ last' = it.last
           /\ classified' = IF it.last.key = <<>> THEN classified
                            ELSE classified \cup {it.last.key}
           /\ reservation_ids' = rest
           /\ pc' = IF rest = <<>> THEN "cleaner" ELSE "run"
    /\ UNCHANGED <<platformVars, cache, cleanerVars, cycles, page>>

RunReservation == \E o \in RunScenarios : RunStep(o)

NextRun ==
    \/ WriteMessage
    \/ CleanerReplies
    \/ StartRun
    \/ RunReservation
    \/ PollCleaner

SpecRun == Init /\ [][NextRun]_vars

\* --------------------------------------------------------- pipeline alone
\* Pipeline.process_message under any caller: a guest writes, and a caller
\* hands the latest guest message of some reservation to process_message,
\* with the message's id (as src/daemon.py does) or without one (as
\* scripts/run.py does), in any order.  Every call is one cycle of its
\* caller on one reservation.
GuestWrites ==
    /\ pc = "idle"
    /\ Events < MaxEvents
    /\ \E r \in Reservations :
        messages' = [messages EXCEPT ![r] = Append(@,
            [message_id |-> PlatformId(r, Len(@) + 1), type |-> 1, blank |-> FALSE])]
    /\ UNCHANGED <<feed, reviewers, cache, ledgerVars, cleanerVars, cycleVars, historyVars>>

CallScenarios ==
    {o \in Scenarios : o.fetch = "ok"}

\* One call of process_message and what it leaves behind.
Call(reservation_id, with_id, o) ==
    LET position == LatestPosition(GuestPositions(messages[reservation_id]))
        latest == messages[reservation_id][position]
        r == process_message(Ledger, reservation_id,
                             IF with_id THEN latest.message_id ELSE 0,
                             o.cls, o.fail)
    IN  [L |-> r.L,
         last |-> Called(r, <<reservation_id, position>>),
         raised |-> r.action = "raised",
         asked |-> [fetch |-> "ok",
                    cls |-> IF r.classified THEN o.cls ELSE NoClassification,
                    fail |-> r.raised]]

CallMade(reservation_id, with_id, o) ==
    /\ pc = "idle"
    /\ cycles' = cycles + 1
    /\ GuestPositions(messages[reservation_id]) # {}
    /\ \E it \in {Call(reservation_id, with_id, o)} :
        /\ it.asked = o
        /\ it.last.key # <<>> => o.cls \in Classifications
        /\ it.raised => Events < MaxEvents
        /\ faults' = IF it.raised THEN faults + 1 ELSE faults
        /\ seen' = it.L.seen
        /\ requests' = it.L.requests
        /\ drafts' = it.L.drafts
        /\ sent' = it.L.sent
        /\ last' = it.last
        /\ classified' = IF it.last.key = <<>> THEN classified
                         ELSE classified \cup {it.last.key}
    /\ UNCHANGED <<platformVars, cache, cleanerVars, pc, page, reservation_ids>>

CallStep(reservation_id, with_id, o) ==
    /\ cycles < MaxCycles
    /\ CallMade(reservation_id, with_id, o)

CallProcessMessage ==
    \E r \in Reservations, with_id \in BOOLEAN, o \in CallScenarios :
        CallStep(r, with_id, o)

NextPipeline ==
    \/ GuestWrites
    \/ CallProcessMessage

SpecPipeline == Init /\ [][NextPipeline]_vars

\* ----------------------------------------------------------- ledger alone
\* SqliteRequestMemory under any client: the operations of the Ledger are
\* called directly, in any order and with any arguments, as the contract
\* tests and scripts/review_drafts.py do.
LedgerIds == 1..2

Verdicts == {"ok", "nok"}

\* What a reviewer passes to review_draft: approve passes the verdict alone,
\* reject passes what was typed, which may be nothing.
Reviews ==
    {[verdict |-> "ok", actual_message_sent |-> "null", owner_comment |-> "null"],
     [verdict |-> "nok", actual_message_sent |-> "null", owner_comment |-> "null"],
     [verdict |-> "nok", actual_message_sent |-> "actual", owner_comment |-> "comment"]}

LedgerCall(L, op, key, count, action) ==
    /\ pc = "idle"
    /\ cycles < MaxCalls
    /\ cycles' = cycles + 1
    /\ seen' = L.seen
    /\ requests' = L.requests
    /\ drafts' = L.drafts
    /\ sent' = L.sent
    /\ faults' = IF action = "raised" THEN faults + 1 ELSE faults
    /\ last' = [NoLast EXCEPT !.op = op, !.key = key, !.count = count, !.action = action]
    /\ UNCHANGED <<platformVars, cache, cleanerVars, pc, page, reservation_ids, historyVars>>

MarkMessageSeen(message_id, reservation_id) ==
    LedgerCall(mark_message_seen(Ledger, message_id, reservation_id),
               "mark_message_seen", <<message_id, reservation_id>>, 0,
               IF has_message_been_seen(Ledger, message_id) THEN "again" ELSE "marked")

SaveRequest(reservation_id, intent, request_id) ==
    IF RequestIdTaken(Ledger, request_id)
    THEN LedgerCall(Ledger, "save_request", <<reservation_id, intent>>, request_id, "raised")
    ELSE LedgerCall(save_request(Ledger, reservation_id, intent, request_id,
                                 OriginalTime(intent), RelevantDate(intent)),
                    "save_request", <<reservation_id, intent>>, request_id, "saved")

UpdateStatus(request_id, status) ==
    LedgerCall(update_status(Ledger, request_id, status),
               "update_status", <<>>, request_id, status)

SaveDraft(request_id, now) ==
    LedgerCall(save_draft([Ledger EXCEPT !.now = now], request_id, 1,
                          "early_checkin", "acknowledgment", "ack.body"),
               "save_draft", <<>>, request_id, "saved")

ReviewDraft(draft_id, review) ==
    LedgerCall(review_draft(Ledger, draft_id, review.verdict,
                            review.actual_message_sent, review.owner_comment),
               "review_draft", <<>>, draft_id,
               IF get_draft(Ledger, draft_id) = NoDraft THEN "missing"
               ELSE get_draft(Ledger, draft_id).verdict)

LedgerMarks ==
    \E message_id \in LedgerIds, r \in Reservations : MarkMessageSeen(message_id, r)

LedgerSaves ==
    \E r \in Reservations, intent \in RealIntents, request_id \in LedgerIds :
        SaveRequest(r, intent, request_id)

LedgerUpdates ==
    \E request_id \in LedgerIds : UpdateStatus(request_id, "pending_reply")

LedgerDrafts ==
    \E request_id \in LedgerIds, now \in Clock : SaveDraft(request_id, now)

LedgerReviews ==
    \E draft_id \in 1..(Len(drafts) + 1), review \in Reviews :
        ReviewDraft(draft_id, review)

NextLedger ==
    \/ LedgerMarks
    \/ LedgerSaves
    \/ LedgerUpdates
    \/ LedgerDrafts
    \/ LedgerReviews

SpecLedger == Init /\ [][NextLedger]_vars

\* ---------------------------------------------------------- the review tool
\* scripts/review_drafts.py: every "ok <id>" or "nok <id>" is a process of
\* its own with its own connection to the database.  approve and reject read
\* the draft, return when it is missing or reviewed, and otherwise write the
\* review; reject waits for the owner's input in between.  Invocations run
\* side by side, so the read of one may come between the read and the write
\* of another.
Invocations == 1..2

\* Drafts enter the Ledger as the pipeline saves them.
ToolDraftSaved ==
    /\ reviewers = <<>>
    /\ LedgerDrafts

\* The owner starts the invocations.
ToolStarted ==
    /\ reviewers = <<>>
    /\ drafts # <<>>
    /\ reviewers' = [p \in Invocations |-> [at |-> "start"]]
    /\ UNCHANGED <<messages, feed, cache, ledgerVars, cleanerVars, cycleVars, historyVars>>

\* approve / reject up to the review_draft call: get_draft, and the two
\* early returns.
ToolChecks(p, draft_id, review) ==
    /\ reviewers # <<>>
    /\ reviewers[p].at = "start"
    /\ LET draft == get_draft(Ledger, draft_id) IN
       /\ reviewers' = [reviewers EXCEPT ![p] =
               IF draft = NoDraft THEN [at |-> "not_found"]
               ELSE IF draft.verdict # "pending" THEN [at |-> "already_reviewed"]
               ELSE [at |-> "checked", draft_id |-> draft_id, review |-> review]]
       /\ last' = [NoLast EXCEPT !.op = "get_draft", !.count = draft_id,
                       !.action = IF draft = NoDraft THEN "missing" ELSE draft.verdict]
    /\ UNCHANGED <<messages, feed, cache, ledgerVars, cleanerVars, pc, cycles, page,
                   reservation_ids, faults, historyVars>>

\* await mem.review_draft(draft_id, verdict, actual, comment)
ToolWrites(p) ==
    /\ reviewers # <<>>
    /\ reviewers[p].at = "checked"
    /\ LET held == reviewers[p]
           L == review_draft(Ledger, held.draft_id, held.review.verdict,
                             held.review.actual_message_sent,
                             held.review.owner_comment)
       IN  /\ drafts' = L.drafts
           /\ last' = [NoLast EXCEPT !.op = "review_draft", !.count = held.draft_id,
                           !.action = get_draft(Ledger, held.draft_id).verdict]
    /\ reviewers' = [reviewers EXCEPT ![p] = [at |-> "reviewed"]]
    /\ UNCHANGED <<messages, feed, cache, seen, requests, sent, cleanerVars, pc, cycles,
                   page, reservation_ids, faults, historyVars>>

ToolCheck ==
    \E p \in Invocations, draft_id \in 1..(Len(drafts) + 1), review \in Reviews :
        ToolChecks(p, draft_id, review)

ToolWrite ==
    \E p \in Invocations : ToolWrites(p)

NextTool ==
    \/ ToolDraftSaved
    \/ ToolStarted
    \/ ToolCheck
    \/ ToolWrite

SpecTool == Init /\ [][NextTool]_vars

\* ------------------------------------------------------ pipeline and owner
\* The pipeline under any caller together with the owner's reviews: guests
\* write, the cleaner replies, process_message and
\* process_cleaner_responses are called in any order, and drafts are
\* reviewed in between.
CallCleanerResponses ==
    /\ pc = "idle"
    /\ cycles < MaxCycles
    /\ cycles' = cycles + 1
    /\ PollResponses
    /\ UNCHANGED pc

\* A review is one call of its caller, as the calls of the pipeline are.
OwnerReviews ==
    /\ cycles < MaxCycles
    /\ LedgerReviews

NextReview ==
    \/ GuestWrites
    \/ CallProcessMessage
    \/ CleanerReplies
    \/ CallCleanerResponses
    \/ OwnerReviews

SpecReview == Init /\ [][NextReview]_vars

\* --------------------------------------------------------- the scan alone
\* The thread scan of poll_once as a function of the platform's feed: the
\* feed is a list of threads that the platform serves in pages of PageSize,
\* every page full but the last, and has_more tells whether a page follows
\* (SmoobuClient.get_threads: page_number < page_count).
FlatFeeds ==
    UNION {[1..n -> Thread] : n \in 0..(MaxPages * PageSize)}

PageCount(flat) == (Len(flat) + PageSize - 1) \div PageSize

Paginate(flat) ==
    [p \in 1..PageCount(flat) |->
        SubSeq(flat, (p - 1) * PageSize + 1,
               IF p * PageSize < Len(flat) THEN p * PageSize ELSE Len(flat))]

\* smoobu.get_threads(page_number): a page past the end has no threads.
get_threads(pages, page_number) ==
    [threads |-> IF page_number \in DOMAIN pages THEN pages[page_number] ELSE <<>>,
     has_more |-> page_number < Len(pages)]

InitScan ==
    /\ messages = [r \in Reservations |-> <<>>]
    /\ feed \in {Paginate(flat) : flat \in FlatFeeds}
    /\ reviewers = <<>>
    /\ cache = {}
    /\ seen = {}
    /\ requests = <<>>
    /\ drafts = <<>>
    /\ sent = <<>>
    /\ pending = <<>>
    /\ replies = 0
    /\ pc = "scan"
    /\ cycles = 1
    /\ page = 1
    /\ reservation_ids = <<>>
    /\ faults = 0
    /\ last = NoLast
    /\ classified = {}

\* One pass of the while loop on the page the feed serves.
FetchPage ==
    /\ pc = "scan"
    /\ LET thread_page == get_threads(feed, page)
           b == ScanPageBody(reservation_ids, thread_page.threads,
                             thread_page.has_more, Cutoff)
       IN  IF b.more
           THEN /\ reservation_ids' = b.ids
                /\ page' = page + 1
                /\ UNCHANGED <<pc, last>>
           ELSE ScanDone(b.ids, page, FALSE)
    /\ UNCHANGED <<faults, cycles, platformVars, cache, ledgerVars, cleanerVars, historyVars>>

NextScan == FetchPage

SpecScan == InitScan /\ [][NextScan]_vars

\* ----------------------------------------------------------- cleaner alone
\* process_cleaner_responses under any caller: requests are in the Ledger,
\* the cleaner replies, and the responses are polled; any one handling of a
\* poll may raise.
CleanerPoll ==
    /\ pc = "idle"
    /\ cycles < MaxCycles
    /\ cycles' = cycles + 1
    /\ \E parsed \in [DOMAIN pending -> ParsedResponses],
          failAt \in 0..Len(pending), fail \in CleanerFailPoints :
        PollHandled(parsed, failAt, fail)
    /\ UNCHANGED <<platformVars, cache, replies, pc, page, reservation_ids, historyVars>>

\* A request enters the Ledger as process_message saves it, under a fresh id.
RequestSaved ==
    /\ cycles < MaxCycles
    /\ \E r \in Reservations, intent \in RealIntents :
        SaveRequest(r, intent, uuid4(Ledger))

NextCleaner ==
    \/ RequestSaved
    \/ CleanerReplies
    \/ CleanerPoll

SpecCleaner == Init /\ [][NextCleaner]_vars

\* ------------------------------------------------------ pipeline, at length
\* The two entry points of the Pipeline under any caller, for as many calls
\* as a client of the Ledger makes: process_message on the latest guest
\* message of a reservation, and process_cleaner_responses.
LongCall ==
    /\ cycles < MaxCalls
    /\ \E r \in Reservations, with_id \in BOOLEAN, o \in CallScenarios :
        CallMade(r, with_id, o)

LongPoll ==
    /\ pc = "idle"
    /\ cycles < MaxCalls
    /\ cycles' = cycles + 1
    /\ \E parsed \in [DOMAIN pending -> ParsedResponses],
          failAt \in 0..Len(pending), fail \in CleanerFailPoints :
        PollTaken(parsed, failAt, fail)
    /\ UNCHANGED <<platformVars, cache, replies, pc, page, reservation_ids, historyVars>>

NextLifecycle ==
    \/ GuestWrites
    \/ CleanerReplies
    \/ LongCall
    \/ LongPoll

SpecLifecycle == Init /\ [][NextLifecycle]_vars

\* ------------------------------------------------------------- properties
\* The message a daemon iteration on reservation r hands to process_message.
LatestOf(r) ==
    messages[r][LatestPosition(GuestPositions(messages[r]))]

\* The seen markers S hold the id of that message.
LatestSeenIn(S, r) ==
    /\ LatestOf(r).message_id # 0
    /\ \E m \in S : m.message_id = LatestOf(r).message_id

\* No request row of table R is for the pair (r, intent).
FreshPair(R, r, intent) ==
    \A i \in DOMAIN R : ~(R[i].reservation_id = r /\ R[i].intent = intent)

\* The steps of the drafts that belong to the requests of (r, intent).
StepsOf(r, intent) ==
    {drafts[j].step : j \in {k \in DOMAIN drafts :
        \E i \in DOMAIN requests :
            /\ requests[i].reservation_id = r
            /\ requests[i].intent = intent
            /\ requests[i].request_id = drafts[k].request_id}}

\* What a step that calls process_message under scenario o records of it:
\* a classification exactly when o has one, a raise exactly when o has one.
Consulted(o) ==
    /\ messages' = messages
    /\ (last'.key = <<>>) = (o.cls = NoClassification)
    /\ (last'.action = "raised") = (o.fail # "none")

\* A step in which process_message is called on the latest guest message of
\* reservation r under scenario o, with the message's id: by any caller, or
\* by the daemon's iteration on r.
Processes(r, o) ==
    /\ Consulted(o)
    /\ \/ CallStep(r, TRUE, o)
       \/ /\ pc = "process"
          /\ r = Head(reservation_ids)
          /\ ProcessStep(o)
          /\ last'.op = "process_message"

\* The same, with or without the message's id.
ProcessesAnyhow(r, o) ==
    \/ Processes(r, o)
    \/ Consulted(o) /\ CallStep(r, FALSE, o)

\* Table T' is table T with n rows appended.
Grown(T, Tnew, n) ==
    /\ Len(Tnew) = Len(T) + n
    /\ \A i \in DOMAIN T : Tnew[i] = T[i]

\* C1: across the poll cycles the classifier completes a classification of
\* a given message at most once: no step classifies a message that an
\* earlier step has already classified.
C1_ClassifiedAtMostOnce ==
    [][\A o \in Scenarios :
        (/\ pc \in {"process", "run"}
         /\ last'.key # <<>>
         /\ ProcessStep(o) \/ RunStep(o))
        => last'.key \notin classified]_vars

\* C2: process_message called with a message_id that is already marked seen
\* returns already_processed, does not call the classifier, and leaves the
\* requests and the drafts as they were.
C2_SeenMessageSkipped ==
    [][\A r \in Reservations, o \in CallScenarios :
        (/\ pc \in {"idle", "process"}
         /\ last'.op = "process_message"
         /\ Consulted(o)
         /\ GuestPositions(messages[r]) # {}
         /\ LatestSeenIn(seen, r)
         /\ Processes(r, o))
        => (/\ last'.action = "already_processed"
            /\ last'.key = <<>>
            /\ o.cls = NoClassification
            /\ UNCHANGED <<seen, requests, drafts, classified>>)]_vars

C2_Witness ==
    /\ last.op = "process_message"
    /\ last.action = "already_processed"
    /\ last.key = <<>>
    /\ seen # {}

\* C3: the core never calls send_message nor send_query; what it writes for
\* a guest or the cleaner exists only as drafts.
C3_NothingSent ==
    sent = <<>>

C3_Witness ==
    /\ sent = <<>>
    /\ \E i, j \in DOMAIN drafts :
        /\ drafts[i].step = "cleaner_query"
        /\ drafts[j].step = "guest_reply"
        /\ drafts[i].request_id = drafts[j].request_id

\* C4: the requests table holds at most one row per (reservation_id, intent).
C4_OneRequestPerPair ==
    \A i, j \in DOMAIN requests :
        (/\ requests[i].reservation_id = requests[j].reservation_id
         /\ requests[i].intent = requests[j].intent) => i = j

C4_Witness ==
    /\ last.op = "process_message"
    /\ last.action = "already_processed"
    /\ last.key # <<>>
    /\ Len(requests) = 1

\* C5: an exception raised while the metadata or the messages of one
\* reservation are fetched, or by the pipeline on its message, is caught in
\* that iteration: the loop goes on with exactly the reservations that
\* remain, and the rows already in the Ledger stay as they are.
C5_FailureIsolated ==
    [][\A o \in Scenarios :
        (pc = "process" /\ last'.action = "raised" /\ ProcessStep(o))
        => (/\ reservation_ids' = Tail(reservation_ids)
            /\ pc' = IF Tail(reservation_ids) = <<>> THEN "cleaner" ELSE "process"
            /\ Grown(requests, requests', Len(requests') - Len(requests))
            /\ Grown(drafts, drafts', Len(drafts') - Len(drafts))
            /\ Len(requests') >= Len(requests)
            /\ Len(drafts') >= Len(drafts))]_vars

C5_Witness ==
    /\ last.op = "process_message"
    /\ last.action = "drafts_created"
    /\ last.raised_before

\* C6: a message is marked seen only after classify has returned: when
\* classify raises, the message is not marked seen, no request and no draft
\* is written, and the seen guard still admits the message.
C6_ClassifyFailureLeavesUnseen ==
    [][\A r \in Reservations, o \in CallScenarios :
        (/\ o.fail = "classify"
         /\ pc \in {"idle", "process"}
         /\ last'.action = "raised"
         /\ ProcessesAnyhow(r, o))
        => (/\ UNCHANGED <<seen, requests, drafts, classified>>
            /\ last'.key = <<>>
            /\ Processes(r, o) => ~LatestSeenIn(seen', r))]_vars

C6_Witness ==
    /\ last.op = "process_message"
    /\ last.action = "raised"
    /\ last.key = <<>>
    /\ seen = {}
    /\ \E r \in Reservations :
        /\ GuestPositions(messages[r]) # {}
        /\ LatestOf(r).message_id # 0

\* C7: when classify or compose_acknowledgment raises in process_message,
\* the Ledger has not advanced for that message: no request row and no draft
\* of it is recorded, so a later cycle processes it again and produces its
\* drafts.  Stated for the two ports the claim names and for messages that
\* carry an id.
C7_FailureLeavesLedger ==
    [][\A o \in Scenarios :
        (/\ o.fetch = "ok" /\ o.fail \in {"classify", "compose_acknowledgment"}
         /\ pc = "process" /\ last'.action = "raised"
         /\ ProcessStep(o)
         /\ LatestOf(Head(reservation_ids)).message_id # 0)
        => UNCHANGED <<requests, drafts>>]_vars

\* C8: an unseen message classified early_checkin or late_checkout without
\* follow-up, on a pair with no request, gets one request with an id no
\* other request carries, exactly two drafts (acknowledgment, then
\* cleaner_query) of that request, the status pending_acknowledgment, and
\* the result drafts_created.
C8_TwoDraftsCreated ==
    [][\A r \in Reservations, o \in CallScenarios :
        (/\ o.fail = "none"
         /\ o.cls.intent \in RealIntents
         /\ ~o.cls.needs_followup
         /\ pc \in {"idle", "process"}
         /\ last'.key # <<>>
         /\ FreshPair(requests, r, o.cls.intent)
         /\ ProcessesAnyhow(r, o))
        => LET n == Len(requests)
               d == Len(drafts)
           IN  /\ Grown(requests, requests', 1)
               /\ requests'[n + 1].reservation_id = r
               /\ requests'[n + 1].intent = o.cls.intent
               /\ requests'[n + 1].status = "pending_acknowledgment"
               /\ \A i \in 1..n : requests[i].request_id # requests'[n + 1].request_id
               /\ Grown(drafts, drafts', 2)
               /\ drafts'[d + 1].step = "acknowledgment"
               /\ drafts'[d + 2].step = "cleaner_query"
               /\ \A k \in {d + 1, d + 2} :
                    /\ drafts'[k].request_id = requests'[n + 1].request_id
                    /\ drafts'[k].verdict = "pending"
               /\ last'.action = "drafts_created"]_vars

C8_Witness ==
    /\ last.op = "process_message"
    /\ last.action = "drafts_created"
    /\ Len(requests) = 2
    /\ Len(drafts) = 4

C10_FollowupAnswerAdmitted ==
    [][\A o \in Scenarios :
        (/\ o.cls.intent \in RealIntents
         /\ pc = "process"
         /\ last'.key # <<>>
         /\ last'.key \notin classified
         /\ StepsOf(Head(reservation_ids), o.cls.intent) = {"followup"}
         /\ ProcessStep(o)
         /\ LatestOf(Head(reservation_ids)).message_id # 0)
        => last'.action # "already_processed"]_vars

\* C11: a message classified "other" makes process_message return ignored;
\* no request and no draft is written and nothing is sent: the only change
\* of the Ledger is the seen marker of the message, when the call carries
\* its id.
C11_OtherIgnored ==
    [][\A r \in Reservations, o \in CallScenarios :
        (/\ o.fail = "none"
         /\ o.cls.intent = "other"
         /\ pc \in {"idle", "process"}
         /\ last'.key # <<>>
         /\ ProcessesAnyhow(r, o))
        => (/\ last'.action = "ignored"
            /\ UNCHANGED <<requests, drafts, sent>>
            /\ seen \subseteq seen'
            /\ seen' \subseteq seen \cup {[message_id |-> LatestOf(r).message_id,
                                            reservation_id |-> r]}
            /\ Processes(r, o) => LatestSeenIn(seen', r))]_vars

C11_Witness ==
    /\ last.op = "process_message"
    /\ last.action = "ignored"
    /\ requests = <<>>
    /\ drafts = <<>>
    /\ Cardinality(seen) = 1

\* The intent of RealIntents that is not intent.
OtherIntent(intent) ==
    IF intent = "early_checkin" THEN "late_checkout" ELSE "early_checkin"

\* C12: process_message on a (reservation, intent) pair that already has a
\* request returns already_processed: no storage call after the check is
\* reached, so none raises, and no request and no draft is added.
C12_ProcessedPairSkipped ==
    [][\A r \in Reservations, o \in CallScenarios :
        (/\ o.cls.intent \in RealIntents
         /\ o.fail # "mark_message_seen"
         /\ pc \in {"idle", "process"}
         /\ last'.key # <<>>
         /\ ~FreshPair(requests, r, o.cls.intent)
         /\ ProcessesAnyhow(r, o))
        => (/\ last'.action = "already_processed"
            /\ o.fail = "none"
            /\ faults' = faults
            /\ UNCHANGED <<requests, drafts, sent>>)]_vars

C12_Witness ==
    /\ last.op = "process_message"
    /\ last.action = "already_processed"
    /\ last.key # <<>>
    /\ faults = 0
    /\ Len(requests) = 1
    /\ Len(drafts) = 2

\* C13: the two intents are deduplicated independently: on a reservation
\* that has a request of the other intent and none of this one, a call in
\* which nothing raises does not return already_processed; it appends a
\* request of its own for (reservation, intent) and that request's drafts
\* (acknowledgment and cleaner_query when no follow-up is asked), and leaves
\* the other intent's rows as they were.
C13_IntentsIndependent ==
    [][\A r \in Reservations, o \in CallScenarios :
        (/\ o.cls.intent \in RealIntents
         /\ o.fail = "none"
         /\ pc \in {"idle", "process"}
         /\ last'.key # <<>>
         /\ FreshPair(requests, r, o.cls.intent)
         /\ ~FreshPair(requests, r, OtherIntent(o.cls.intent))
         /\ ProcessesAnyhow(r, o))
        => LET n == Len(requests)
               d == Len(drafts)
           IN  /\ last'.action \in {"drafts_created", "followup_drafted"}
               /\ Grown(requests, requests', 1)
               /\ requests'[n + 1].reservation_id = r
               /\ requests'[n + 1].intent = o.cls.intent
               /\ \A i \in 1..n : requests[i].request_id # requests'[n + 1].request_id
               /\ Grown(drafts, drafts', IF NeedsFollowup(o.cls) THEN 1 ELSE 2)
               /\ \A k \in (d + 1)..Len(drafts') :
                    /\ drafts'[k].request_id = requests'[n + 1].request_id
                    /\ drafts'[k].intent = o.cls.intent
               /\ ~NeedsFollowup(o.cls) =>
                    /\ drafts'[d + 1].step = "acknowledgment"
                    /\ drafts'[d + 2].step = "cleaner_query"]_vars

C13_Witness ==
    /\ Len(requests) = 2
    /\ requests[1].reservation_id = requests[2].reservation_id
    /\ requests[1].intent # requests[2].intent
    /\ requests[1].request_id # requests[2].request_id
    /\ Len(drafts) = 4
    /\ \A k \in {1, 2} : drafts[k].request_id = requests[1].request_id
    /\ \A k \in {3, 4} : drafts[k].request_id = requests[2].request_id

\* C14: has_been_processed(r, i) is true exactly when a request has been
\* saved for (r, i): it is false before any call, a step makes it true for a
\* pair only by a save_request of that very pair that succeeds, and no step
\* makes it false again.
C14_ProcessedExactlyWhenSaved ==
    /\ \A r \in Reservations, i \in RealIntents : ~has_been_processed(Ledger, r, i)
    /\ [][\A r \in Reservations, i \in RealIntents :
            has_been_processed(Ledger', r, i) =
                \/ has_been_processed(Ledger, r, i)
                \/ /\ last'.op = "save_request"
                   /\ last'.action = "saved"
                   /\ \E request_id \in LedgerIds : SaveRequest(r, i, request_id)]_vars

C14_Witness ==
    /\ last.op = "save_request"
    /\ last.action = "saved"
    /\ \E r \in Reservations, i \in RealIntents :
        /\ last.key = <<r, i>>
        /\ has_been_processed(Ledger, r, i)
        /\ ~has_been_processed(Ledger, r, OtherIntent(i))
        /\ \A r2 \in Reservations \ {r} : ~has_been_processed(Ledger, r2, i)

\* C15 as stated: save_request for a (reservation, intent) pair that already
\* has a request raises or does nothing: the requests table is left as it
\* was.
C15_SecondSaveRejected ==
    [][\A r \in Reservations, i \in RealIntents, request_id \in LedgerIds :
        (/\ last'.op = "save_request"
         /\ ~FreshPair(requests, r, i)
         /\ SaveRequest(r, i, request_id))
        => UNCHANGED requests]_vars

\* C16: mark_message_seen never raises; after it the message is seen; a
\* second call with the same arguments leaves the Ledger as the first left
\* it; and a message id is seen only once it has been marked.
C16_MarkSeenIdempotent ==
    /\ \A m \in LedgerIds : ~has_message_been_seen(Ledger, m)
    /\ [][\A m \in LedgerIds :
            /\ \A r \in Reservations :
                (last'.op = "mark_message_seen" /\ MarkMessageSeen(m, r))
                => (/\ last'.action # "raised"
                    /\ faults' = faults
                    /\ has_message_been_seen(Ledger', m)
                    /\ [message_id |-> m, reservation_id |-> r] \in seen
                         => UNCHANGED ledgerVars)
            /\ has_message_been_seen(Ledger', m) =
                    \/ has_message_been_seen(Ledger, m)
                    \/ /\ last'.op = "mark_message_seen"
                       /\ \E r \in Reservations : MarkMessageSeen(m, r)]_vars

C16_Witness ==
    /\ last.op = "mark_message_seen"
    /\ last.action = "again"
    /\ [message_id |-> last.key[1], reservation_id |-> last.key[2]] \in seen
    /\ \E m \in LedgerIds : ~has_message_been_seen(Ledger, m)

\* C17 as stated: once the verdict of a draft is ok or nok, no step changes
\* it.
C17_VerdictFinal ==
    [][\A i \in DOMAIN drafts :
        drafts[i].verdict \in Verdicts
        => (i \in DOMAIN drafts' /\ drafts'[i].verdict = drafts[i].verdict)]_vars

\* C18: review_draft on a pending draft takes the draft out of
\* get_pending_drafts, and get_draft returns it with its body, the verdict,
\* actual_message_sent and owner_comment that were passed, and reviewed_at
\* set; a draft that is out of get_pending_drafts never comes back into it.
C18_ReviewedLeavesPending ==
    [][/\ \A d \in DOMAIN drafts, review \in Reviews :
            (/\ last'.op = "review_draft"
             /\ get_draft(Ledger, d).verdict = "pending"
             /\ ReviewDraft(d, review))
            => LET after == get_draft(Ledger', d)
               IN  /\ after.draft_id = d
                   /\ after.draft_body = get_draft(Ledger, d).draft_body
                   /\ after.verdict = review.verdict
                   /\ after.actual_message_sent = review.actual_message_sent
                   /\ after.owner_comment = review.owner_comment
                   /\ after.reviewed_at # "null"
                   /\ \A k \in DOMAIN get_pending_drafts(Ledger') :
                        get_pending_drafts(Ledger')[k].draft_id # d
       /\ \A d \in DOMAIN drafts :
            (\A k \in DOMAIN get_pending_drafts(Ledger) :
                get_pending_drafts(Ledger)[k].draft_id # d)
            => /\ get_draft(Ledger', d).draft_body = get_draft(Ledger, d).draft_body
               /\ get_draft(Ledger', d).reviewed_at # "null"
               /\ \A k \in DOMAIN get_pending_drafts(Ledger') :
                    get_pending_drafts(Ledger')[k].draft_id # d]_vars

C18_Witness ==
    /\ last.op = "review_draft"
    /\ last.action = "pending"
    /\ Len(drafts) = 2
    /\ get_draft(Ledger, last.count).verdict \in Verdicts
    /\ get_draft(Ledger, last.count).reviewed_at = "now"
    /\ Len(get_pending_drafts(Ledger)) = 1

\* C19 as stated: every draft in the Ledger carries the request_id of a
\* request in the Ledger (requests are never deleted, so one that exists now
\* existed when a later draft was created, and one that is missing now was
\* missing then).
C19_DraftReferencesRequest ==
    \A k \in DOMAIN drafts :
        \E i \in DOMAIN requests : requests[i].request_id = drafts[k].request_id

\* A step in which process_cleaner_responses handles the polled responses,
\* parsed as parsed says, with the given failure.  The step records in
\* last.key what the parser returned.
PollsCleaner(parsed, failAt, fail) ==
    /\ last'.op = "cleaner"
    /\ UNCHANGED <<messages, replies>>
    /\ PollTaken(parsed, failAt, fail)

\* Response k of the pending list names a request of the Ledger.
Known(k) ==
    get_request(Ledger, pending[k].request_id) # NoRequest

\* The fields of a draft that review_draft does not write.
DraftContent(d) ==
    [draft_id |-> d.draft_id, request_id |-> d.request_id,
     reservation_id |-> d.reservation_id, intent |-> d.intent,
     step |-> d.step, draft_body |-> d.draft_body]

\* A step that is a call of review_draft.
Reviewing ==
    /\ last'.op = "review_draft"
    /\ \E d \in 1..(Len(drafts) + 1), review \in Reviews : ReviewDraft(d, review)

\* C20: drafts are never deleted and are changed only by review_draft.  A
\* step that is not a review (process_message, process_cleaner_responses,
\* the environment) only appends drafts and leaves every existing draft as
\* it was; review_draft keeps the number of drafts, leaves every draft but
\* the one it names as it was, and changes of that one nothing but verdict,
\* actual_message_sent, owner_comment and reviewed_at.
C20_DraftsOnlyReviewed ==
    [][/\ \A d \in 1..(Len(drafts) + 1), review \in Reviews :
            (last'.op = "review_draft" /\ ReviewDraft(d, review))
            => (/\ Len(drafts') = Len(drafts)
                /\ \A i \in DOMAIN drafts :
                    /\ DraftContent(drafts'[i]) = DraftContent(drafts[i])
                    /\ i # d => drafts'[i] = drafts[i])
       /\ ~Reviewing
            => (/\ Len(drafts') >= Len(drafts)
                /\ Grown(drafts, drafts', Len(drafts') - Len(drafts)))]_vars

C20_Witness ==
    /\ last.op = "review_draft"
    /\ last.action = "pending"
    /\ \E i, j \in DOMAIN drafts :
        /\ drafts[i].step = "acknowledgment"
        /\ drafts[j].step = "cleaner_query"
        /\ drafts[i].verdict = "pending"
        /\ drafts[j].verdict \in Verdicts
        /\ drafts[j].reviewed_at = "now"

\* C21: for every polled response that names a request, and with no call
\* raising, process_cleaner_responses appends exactly one draft, of step
\* guest_reply, under that request's id, reservation and intent, sets the
\* request's status to pending_reply, leaves the earlier drafts as they
\* were, and returns one result per response.
C21_ReplyDrafted ==
    [][(pending # <<>> /\ pending' = <<>> /\ last'.op = "cleaner" /\ last'.action = "polled")
       => \A parsed \in {last'.key} :
        PollsCleaner(parsed, 0, "none")
        => (/\ Grown(drafts, drafts', Len(pending))
            /\ last'.count = Len(pending)
            /\ \A k \in DOMAIN pending :
                Known(k) =>
                    LET req == get_request(Ledger, pending[k].request_id)
                        new == drafts'[Len(drafts) + k]
                    IN  /\ new.step = "guest_reply"
                        /\ new.request_id = pending[k].request_id
                        /\ new.reservation_id = req.reservation_id
                        /\ new.intent = req.intent
                        /\ new.verdict = "pending"
                        /\ get_request(Ledger', pending[k].request_id) =
                                [req EXCEPT !.status = "pending_reply"])]_vars

C21_Witness ==
    /\ last.op = "cleaner"
    /\ last.action = "polled"
    /\ last.count = 1
    /\ \E i \in DOMAIN requests :
        /\ requests[i].status = "pending_reply"
        /\ {drafts[k].step : k \in {j \in DOMAIN drafts :
                drafts[j].request_id = requests[i].request_id}}
            = {"acknowledgment", "cleaner_query", "guest_reply"}

\* C22: a response that names no request does not make its handling raise:
\* when no port raises, the poll handles every response and returns; and no
\* poll, failed or not, changes a request that none of its responses names.
C22_UnknownRequestTolerated ==
    [][(/\ pending # <<>> /\ pending' = <<>> /\ last'.op = "cleaner"
        /\ \E k \in DOMAIN pending : ~Known(k))
       => /\ \A parsed \in {last'.key} :
              PollsCleaner(parsed, 0, "none")
              => (/\ last'.action = "polled"
                  /\ last'.count = Len(pending)
                  /\ faults' = faults)
          /\ Len(requests') = Len(requests)
          /\ \A i \in DOMAIN requests :
              (\A k \in DOMAIN pending :
                  pending[k].request_id # requests[i].request_id)
              => requests'[i] = requests[i]]_vars

C22_Witness ==
    /\ last.op = "cleaner"
    /\ last.action = "polled"
    /\ last.count = 1
    /\ requests # <<>>
    /\ \A i \in DOMAIN requests : requests[i].status = "pending_acknowledgment"
    /\ \E k \in DOMAIN drafts :
        /\ drafts[k].step = "guest_reply"
        /\ get_request(Ledger, drafts[k].request_id) = NoRequest

\* C23: whatever the parser returns for each response (yes, no,
\* conditional, unclear), a poll in which no call raises
\* appends exactly one draft per response, of step guest_reply and pending,
\* carrying the reply composed from that answer, and sends nothing.
C23_EveryAnswerDrafted ==
    [][(pending # <<>> /\ pending' = <<>> /\ last'.op = "cleaner")
       => \A parsed \in {last'.key} :
        PollsCleaner(parsed, 0, "none")
        => (/\ Grown(drafts, drafts', Len(pending))
            /\ last'.action = "polled"
            /\ sent' = sent
            /\ \A k \in DOMAIN pending :
                LET new == drafts'[Len(drafts) + k]
                IN  /\ new.step = "guest_reply"
                    /\ new.verdict = "pending"
                    /\ new.request_id = pending[k].request_id
                    /\ new.draft_body = compose(parsed[k]))]_vars

C23_Witness ==
    /\ last.op = "cleaner"
    /\ last.action = "polled"
    /\ sent = <<>>
    /\ \E j, k \in DOMAIN drafts :
        /\ drafts[j].step = "guest_reply"
        /\ drafts[j].draft_body = "reply.unclear"
        /\ drafts[k].step = "guest_reply"
        /\ drafts[k].draft_body = "reply.no"

\* C28 as stated: when the handling of one polled response raises, every
\* other response of the same poll still gets its guest_reply draft.
C28_FailedResponseSkipped ==
    [][(pending # <<>> /\ pending' = <<>> /\ last'.op = "cleaner" /\ last'.action = "raised")
       => \A parsed \in {last'.key},
             failAt \in 1..Len(pending), fail \in CleanerFailPoints \ {"none"} :
        (/\ UNCHANGED <<messages, replies>>
         /\ PollHandled(parsed, failAt, fail))
        => \A k \in DOMAIN pending \ {failAt} :
            \E j \in DOMAIN drafts' \ DOMAIN drafts :
                /\ drafts'[j].step = "guest_reply"
                /\ drafts'[j].request_id = pending[k].request_id]_vars

\* The threads of the feed, in the order the platform serves them.
RECURSIVE Flatten(_)
Flatten(pages) ==
    IF pages = <<>> THEN <<>> ELSE Head(pages) \o Flatten(Tail(pages))

\* The feed is sorted most-recent-first.
SortedFeed ==
    LET flat == Flatten(feed)
    IN  \A i, j \in DOMAIN flat :
            i < j => flat[i].latest_message_at >= flat[j].latest_message_at

\* The scan has run to its end.
Scanned ==
    pc # "scan" /\ last.op = "scan"

\* The position in the feed of the first thread of reservation r that is
\* within the cutoff.
FirstRecent(r) ==
    LET flat == Flatten(feed)
    IN  CHOOSE i \in DOMAIN flat :
            /\ flat[i].reservation_id = r
            /\ flat[i].latest_message_at >= Cutoff
            /\ \A j \in 1..(i - 1) :
                ~(flat[j].reservation_id = r /\ flat[j].latest_message_at >= Cutoff)

AllOldPages ==
    {p \in DOMAIN feed : \A i \in DOMAIN feed[p] :
        feed[p][i].latest_message_at < Cutoff}

\* The page at which the scan has to stop: the first page that is all old,
\* the last page when there is none, page 1 of an empty feed.
LastPageToFetch ==
    IF AllOldPages # {}
    THEN CHOOSE k \in AllOldPages : \A p \in AllOldPages : k <= p
    ELSE IF feed = <<>> THEN 1 ELSE Len(feed)

ScanRaised ==
    last.op = "scan" /\ last.action = "raised"

\* C26: a page fetch that raises stops only the scan: the ids collected from
\* the earlier pages are kept and the for loop takes them one after the
\* other, nothing but the cleaner poll ends the cycle, and the cleaner poll
\* does run.
C26_ScanFailureContained ==
    /\ [][/\ (pc = "scan" /\ last'.op = "scan" /\ last'.action = "raised")
              => /\ reservation_ids' = reservation_ids
                 /\ pc' = IF reservation_ids = <<>> THEN "cleaner" ELSE "process"
                 /\ UNCHANGED <<ledgerVars, cleanerVars, cache>>
          /\ pc = "process"
              => /\ reservation_ids # <<>>
                 /\ reservation_ids' = Tail(reservation_ids)
                 /\ last'.op \in {"skip", "process_message"}
                 /\ pc' = IF reservation_ids' = <<>> THEN "cleaner" ELSE "process"
          /\ (pc # "idle" /\ pc' = "idle")
              => pc = "cleaner" /\ last'.op = "cleaner"]_vars
    /\ (ScanRaised ~> (pc = "idle" /\ last.op = "cleaner"))

C26_Witness ==
    /\ pc = "process"
    /\ ScanRaised
    /\ last.count = 2
    /\ reservation_ids # <<>>

\* Every row of the requests table is still there, its status apart.
RequestsKept ==
    /\ Len(requests') >= Len(requests)
    /\ \A i \in DOMAIN requests :
        [requests'[i] EXCEPT !.status = "x"] = [requests[i] EXCEPT !.status = "x"]

\* C27: when the cleaner poll that ends a cycle raises, poll_once returns
\* normally (the daemon is idle again, ready for the next cycle) and what the
\* cycle has written stays: every seen marker, every request row and every
\* draft that was there before the poll is there after it.
C27_CleanerFailureContained ==
    [][(pc = "cleaner" /\ last'.op = "cleaner" /\ last'.action = "raised")
       => /\ pc' = "idle"
          /\ cycles' = cycles
          /\ seen \subseteq seen'
          /\ RequestsKept
          /\ Grown(drafts, drafts', Len(drafts') - Len(drafts))
          /\ sent' = sent]_vars

C27_Witness ==
    /\ pc = "idle"
    /\ cycles = 1
    /\ last.op = "cleaner"
    /\ last.action = "raised"
    /\ seen # {}
    /\ requests # <<>>
    /\ drafts # <<>>

\* The for loop is about to take a reservation whose metadata is cached.
CacheHit ==
    pc = "process" /\ Head(reservation_ids) \in cache

\* C29: no step removes an entry from the reservation cache, and an
\* iteration on a reservation the cache holds does not ask the platform for
\* its metadata: none of the platform's answers to get_reservation (not
\* found, an exception, a value to store) is taken by the iteration.
C29_CacheHitAvoidsFetch ==
    [][/\ cache \subseteq cache'
       /\ CacheHit
           => /\ cache' = cache
              /\ ~(last'.op = "skip" /\ last'.action = "no_metadata")
              /\ \A o \in Scenarios :
                    ProcessStep(o)
                    => /\ o.fetch \notin {"not_found", "raise_get_reservation"}
                       /\ ~_get_reservation(cache, Head(reservation_ids),
                                            o.fetch).fetched]_vars

C29_Witness ==
    /\ CacheHit
    /\ cycles = 2
    /\ last.op = "scan"

\* The positions on reservation r's thread of the messages a guest wrote
\* with a body that is not blank.
GuestWritten(r) ==
    {i \in DOMAIN messages[r] :
        messages[r][i].type = 1 /\ ~messages[r][i].blank}

\* C30: the for loop holds each reservation once, and its iteration on
\* reservation r classifies nothing but the last message of r's thread that
\* a guest wrote with a non-blank body, and marks no other message seen;
\* when the thread has no such message the iteration is a skip that
\* classifies nothing and leaves the ledger (requests, drafts, seen markers,
\* outbound calls) as it is.
C30_LatestGuestMessageOnly ==
    [][pc = "process"
       => LET r == Head(reservation_ids)
              guest == GuestWritten(r)
          IN  /\ \A i, j \in DOMAIN reservation_ids :
                    reservation_ids[i] = reservation_ids[j] => i = j
              /\ reservation_ids' = Tail(reservation_ids)
              /\ guest = {}
                  => /\ last'.op = "skip"
                     /\ UNCHANGED <<ledgerVars, classified>>
              /\ last'.op = "process_message" => guest # {}
              /\ last'.key # <<>>
                  => /\ last'.key[1] = r
                     /\ last'.key[2] \in guest
                     /\ \A j \in guest : j <= last'.key[2]
              /\ classified' \subseteq classified \cup {last'.key}
              /\ \A m \in seen' \ seen :
                    /\ guest # {}
                    /\ \E i \in guest :
                        /\ \A j \in guest : j <= i
                        /\ m.message_id = messages[r][i].message_id]_vars

\* A guest message followed by a host message: the guest's one was
\* classified.
C30_Witness ==
    /\ last.op = "process_message"
    /\ last.key # <<>>
    /\ LET r == last.key[1] IN
        /\ Len(messages[r]) = 2
        /\ last.key[2] = 1
        /\ messages[r][2].type = 2

\* The draft ids of a list of drafts.
IdsOf(list) == {list[k].draft_id : k \in DOMAIN list}

\* What get_pending_drafts returns is exactly the pending rows, each once.
ExactlyPending(list) ==
    /\ IdsOf(list) = {drafts[i].draft_id : i \in {j \in DOMAIN drafts :
                          drafts[j].verdict = "pending"}}
    /\ \A k \in DOMAIN list : list[k] = get_draft(Ledger, list[k].draft_id)
    /\ \A k, l \in DOMAIN list : list[k].draft_id = list[l].draft_id => k = l

Collected(list) == {list[i] : i \in DOMAIN list}

\* C32: the scan ends, and it ends on the page that is empty or that the
\* source reports as the last one: no further page is asked for, the ids
\* collected so far stay in their order, and the ids of a last non-empty
\* page that are within the cutoff are among them.
C32_ScanEndsOnLastPage ==
    /\ [][(pc = "scan" /\ last'.action # "raised")
          => \A threads \in PageContents, has_more \in BOOLEAN :
                (ScanFetched(threads, has_more) /\ (threads = <<>> \/ ~has_more))
                => /\ pc' # "scan"
                   /\ last'.op = "scan"
                   /\ last'.count = page
                   /\ Grown(reservation_ids, reservation_ids',
                            Len(reservation_ids') - Len(reservation_ids))
                   /\ threads = <<>> => reservation_ids' = reservation_ids
                   /\ \A i \in DOMAIN threads :
                        threads[i].latest_message_at >= Cutoff
                        => threads[i].reservation_id \in Collected(reservation_ids')]_vars
    /\ (pc = "scan") ~> (pc # "scan")

\* The scan ended on its second page, which the source reported as the
\* last, with an id from each page.
C32_Witness ==
    /\ last.op = "scan"
    /\ last.action = "scanned"
    /\ last.count = 2
    /\ Len(reservation_ids) = 2

\* The for loop is about to take a reservation the cache does not hold.
CacheMiss ==
    pc = "process" /\ Head(reservation_ids) \notin cache

\* C33: an iteration on a reservation the cache does not hold asks the
\* platform.  A reservation that is found is stored in the cache.  One that
\* is not found is not stored and is skipped: its messages are not fetched,
\* nothing is raised, nothing is classified or written, and the for loop
\* goes on with the remaining reservations.
C33_CacheMissFetches ==
    [][CacheMiss
       => \A o \in Scenarios :
            ProcessStep(o)
            => LET r == Head(reservation_ids) IN
               /\ _get_reservation(cache, r, o.fetch).fetched
               /\ o.fetch \in {"ok", "raise_get_messages"} => cache' = cache \cup {r}
               /\ o.fetch = "raise_get_reservation" => cache' = cache
               /\ o.fetch = "not_found"
                  => /\ cache' = cache
                     /\ last'.op = "skip"
                     /\ last'.action = "no_metadata"
                     /\ faults' = faults
                     /\ UNCHANGED <<ledgerVars, classified>>
                     /\ reservation_ids' = Tail(reservation_ids)
                     /\ pc' = IF reservation_ids' = <<>> THEN "cleaner"
                              ELSE "process"]_vars

\* A reservation was not found and skipped, and another one is next.
C33_Witness ==
    /\ pc = "process"
    /\ last.op = "skip"
    /\ last.action = "no_metadata"
    /\ cache = {}
    /\ reservation_ids # <<>>

\* The place of a status in the sequence pending_acknowledgment,
\* pending_cleaner, pending_reply, done.
StatusRank(status) ==
    CASE status = "pending_acknowledgment" -> 1
      [] status = "pending_cleaner" -> 2
      [] status = "pending_reply" -> 3
      [] status = "done" -> 4
      [] OTHER -> 0

\* C34: whatever process_message and process_cleaner_responses calls are
\* made, the stored status of a request is one of the sequence
\* pending_acknowledgment, pending_cleaner, pending_reply, done, and no call
\* moves it to an earlier place in that sequence than the one it holds.
C34_StatusNeverRegresses ==
    [][/\ Len(requests') >= Len(requests)
       /\ \A i \in DOMAIN requests :
            /\ requests'[i].request_id = requests[i].request_id
            /\ StatusRank(requests'[i].status) >= StatusRank(requests[i].status)
       /\ \A i \in DOMAIN requests' : StatusRank(requests'[i].status) >= 1]_vars

\* A request that has reached pending_reply is in the Ledger while
\* process_message saves another one.
C34_Witness ==
    /\ Len(requests) = 2
    /\ requests[1].status = "pending_reply"
    /\ requests[2].status = "pending_acknowledgment"
    /\ last.op = "process_message"

\* Position p on reservation r's thread holds a guest message that a later
\* guest message has followed before it was ever classified.
Overtaken(r, p) ==
    /\ p \in GuestWritten(r)
    /\ <<r, p>> \notin classified
    /\ \E q \in GuestWritten(r) : q > p

\* C35: a guest message that another guest message has followed before a
\* poll classified it is not classified by any later step, the thread only
\* growing.
C35_OvertakenNeverClassified ==
    [][\A r \in Reservations :
        /\ Len(messages'[r]) >= Len(messages[r])
        /\ \A p \in DOMAIN messages[r] :
            /\ messages'[r][p] = messages[r][p]
            /\ Overtaken(r, p) => <<r, p>> \notin classified']_vars

\* Two guest messages on one thread; two cycles have run and classified the
\* second, never the first.
C35_Witness ==
    /\ pc = "idle"
    /\ cycles = 2
    /\ \E r \in Reservations :
        /\ GuestWritten(r) = {1, 2}
        /\ Overtaken(r, 1)
        /\ <<r, 2>> \in classified
        /\ \E s \in seen : s.message_id = messages[r][2].message_id

\* The guest_reply drafts saved under request_id.
GuestReplies(request_id) ==
    {i \in DOMAIN drafts :
        drafts[i].step = "guest_reply" /\ drafts[i].request_id = request_id}

\* C36: the Ledger holds at most one guest_reply draft per request_id,
\* whatever cleaner responses were handled.
C36_OneReplyPerRequest ==
    \A i \in DOMAIN drafts : Cardinality(GuestReplies(drafts[i].request_id)) <= 1

\* C37: a process_message call with message_id 0 leaves the seen markers
\* as they are and is never answered from them: the message is classified
\* whenever the classifier returns, also when an earlier call has marked it
\* seen under its platform id, and for a (reservation, intent) pair that has
\* a request the call adds no request and no draft.
C37_IdlessNeverGuarded ==
    [][\A r \in Reservations, o \in CallScenarios :
        (pc = "idle" /\ last'.op = "process_message" /\ CallStep(r, FALSE, o))
        => /\ seen' = seen
           /\ o.fail # "classify"
              => /\ last'.key = <<r, LatestPosition(GuestPositions(messages[r]))>>
                 /\ o.cls \in Classifications
           /\ (o.fail # "classify" /\ ~IsOther(o.cls)
               /\ has_been_processed(Ledger, r, o.cls.intent))
              => /\ last'.action = "already_processed"
                 /\ requests' = requests
                 /\ drafts' = drafts]_vars

\* A message marked seen under its id was classified again by a call
\* without id; the pair check answered.
C37_Witness ==
    /\ last.op = "process_message"
    /\ last.action = "already_processed"
    /\ last.key # <<>>
    /\ last.key \in classified
    /\ \E s \in seen : s.message_id = messages[last.key[1]][last.key[2]].message_id
    /\ Len(requests) = 1

\* The drafts saved under request_id.
DraftsOf(request_id) ==
    {j \in DOMAIN drafts : drafts[j].request_id = request_id}

\* C38: between poll cycles every request of the Ledger has at least one
\* draft that references its request_id.
C38_EveryRequestHasDraft ==
    pc = "idle" => \A i \in DOMAIN requests : DraftsOf(requests[i].request_id) # {}

\* The drafts of step saved under request_id.
StepDrafts(request_id, step) ==
    {j \in DOMAIN drafts :
        drafts[j].request_id = request_id /\ drafts[j].step = step}

C40_ReviewedDraftUntouched ==
    [][\A i \in DOMAIN drafts :
        drafts[i].verdict # "pending" => drafts'[i] = drafts[i]]_vars

====
